---- MODULE Spec2Model ----
(***************************************************************************)
(* Model of sitemap_generator.py: the SitemapGenerator crawl engine.       *)
(*                                                                         *)
(* URLs and hrefs are strings; the urllib.parse functions the crawler      *)
(* calls (urlparse, urljoin, urlunparse) are operators on strings that     *)
(* follow the library's algorithm.  The crawl is a state machine: the main *)
(* thread of generate_sitemap (batching, submitting, waiting, rendering)   *)
(* and the pool tasks running process_url.                                 *)
(***************************************************************************)
EXTENDS Integers, Sequences, FiniteSets, Bags, TLC

(***************************************************************************)
(* Python str helpers.  The recursive and the multi-step ones are written  *)
(* as functions, f[x \in S], so that TLC evaluates their arguments once.   *)
(***************************************************************************)
CharAt(s, i) == SubSeq(s, i, i)

\* s[:n]
Prefix(s, n) == SubSeq(s, 1, IF n < Len(s) THEN n ELSE Len(s))

\* s.startswith(p)
StartsWith(s, p) == Len(p) <= Len(s) /\ SubSeq(s, 1, Len(p)) = p

\* s.endswith(p)
EndsWith(s, p) == Len(p) <= Len(s) /\ SubSeq(s, Len(s) - Len(p) + 1, Len(s)) = p

\* p in s
Contains(s, p) == \E i \in 0..(Len(s) - Len(p)) : SubSeq(s, i + 1, i + Len(p)) = p

\* the least element of a non-empty set of integers
Least(S) == CHOOSE i \in S : \A j \in S : i <= j

\* s.find(c, start) for a one-character c, 1-based; 0 when absent
Find[s \in STRING, c \in STRING, start \in Nat] ==
  IF \E i \in start..Len(s) : CharAt(s, i) = c
  THEN Least({i \in start..Len(s) : CharAt(s, i) = c})
  ELSE 0

\* s.rfind(c), 1-based; 0 when absent
RFind[s \in STRING, c \in STRING] ==
  IF \E i \in 1..Len(s) : CharAt(s, i) = c
  THEN CHOOSE i \in 1..Len(s) :
         CharAt(s, i) = c /\ \A j \in (i + 1)..Len(s) : CharAt(s, j) /= c
  ELSE 0

UpperChars == "ABCDEFGHIJKLMNOPQRSTUVWXYZ"

LowerChars == "abcdefghijklmnopqrstuvwxyz"

DigitChars == "0123456789"

\* str.lower() of one character
LowerChar[c \in STRING] ==
  IF Find[UpperChars, c, 1] = 0 THEN c ELSE CharAt(LowerChars, Find[UpperChars, c, 1])

\* s.lower()
Lower[s \in STRING] == IF s = "" THEN "" ELSE LowerChar[Head(s)] \o Lower[Tail(s)]

IsAlpha(c) == Find[UpperChars, c, 1] > 0 \/ Find[LowerChars, c, 1] > 0

\* urllib.parse.scheme_chars
IsSchemeChar(c) == IsAlpha(c) \/ Find[DigitChars, c, 1] > 0 \/ Find["+-.", c, 1] > 0

\* s.split("/")
Split[s \in STRING] ==
  IF Find[s, "/", 1] = 0 THEN <<s>>
  ELSE <<SubSeq(s, 1, Find[s, "/", 1] - 1)>>
         \o Split[SubSeq(s, Find[s, "/", 1] + 1, Len(s))]

\* "/".join(parts)
Join[parts \in Seq(STRING)] ==
  IF parts = <<>> THEN ""
  ELSE IF Len(parts) = 1 THEN parts[1]
  ELSE parts[1] \o "/" \o Join[Tail(parts)]

\* [p for p in parts if p]
NonEmpty[parts \in Seq(STRING)] ==
  IF parts = <<>> THEN <<>>
  ELSE IF Head(parts) = "" THEN NonEmpty[Tail(parts)]
  ELSE <<Head(parts)>> \o NonEmpty[Tail(parts)]

(***************************************************************************)
(* urllib.parse                                                            *)
(***************************************************************************)
uses_relative ==
  {"", "ftp", "http", "gopher", "nntp", "imap", "wais", "file", "https",
   "shttp", "mms", "prospero", "rtsp", "rtspu", "sftp", "svn", "svn+ssh",
   "ws", "wss"}

uses_netloc ==
  {"", "ftp", "http", "gopher", "nntp", "telnet", "imap", "wais", "file",
   "mms", "https", "shttp", "snews", "prospero", "rtsp", "rtspu", "rsync",
   "svn", "svn+ssh", "sftp", "nfs", "git", "git+ssh", "ws", "wss"}

uses_params ==
  {"", "ftp", "hdl", "prospero", "http", "imap", "https", "shttp", "rtsp",
   "rtspu", "sip", "sips", "mms", "sftp", "tel"}

\* a URL being taken apart: the parts found so far and the text still to parse
Parts ==
  [scheme : STRING, netloc : STRING, path : STRING, params : STRING,
   query : STRING, fragment : STRING, rest : STRING]

\* urlsplit: a leading "scheme:" made of scheme characters, else the default
SplitScheme[url \in STRING, default \in STRING] ==
  LET i == Find[url, ":", 1]
      blank == [scheme |-> default, netloc |-> "", path |-> "", params |-> "",
                query |-> "", fragment |-> "", rest |-> url]
  IN IF /\ i > 1
        /\ IsAlpha(CharAt(url, 1))
        /\ \A k \in 1..(i - 1) : IsSchemeChar(CharAt(url, k))
     THEN [blank EXCEPT !.scheme = Lower[SubSeq(url, 1, i - 1)],
                        !.rest = SubSeq(url, i + 1, Len(url))]
     ELSE blank

\* urlsplit: after "//" the netloc runs to the first of "/", "?", "#"
SplitNetloc[p \in Parts] ==
  LET hits == {i \in 3..Len(p.rest) : CharAt(p.rest, i) \in {"/", "?", "#"}}
      d == IF hits = {} THEN Len(p.rest) + 1 ELSE Least(hits)
  IN IF Prefix(p.rest, 2) = "//"
     THEN [p EXCEPT !.netloc = SubSeq(p.rest, 3, d - 1),
                    !.rest = SubSeq(p.rest, d, Len(p.rest))]
     ELSE p

\* urlsplit: the fragment is what follows the first "#"
SplitFragment[p \in Parts] ==
  LET h == Find[p.rest, "#", 1]
  IN IF h = 0 THEN p
     ELSE [p EXCEPT !.fragment = SubSeq(p.rest, h + 1, Len(p.rest)),
                    !.rest = SubSeq(p.rest, 1, h - 1)]

\* urlsplit: the query is what follows the first "?"
SplitQuery[p \in Parts] ==
  LET q == Find[p.rest, "?", 1]
  IN IF q = 0 THEN p
     ELSE [p EXCEPT !.query = SubSeq(p.rest, q + 1, Len(p.rest)),
                    !.rest = SubSeq(p.rest, 1, q - 1)]

\* urlparse: _splitparams cuts ";params" off the last path segment
SplitParams[p \in Parts] ==
  LET slash == RFind[p.rest, "/"]
      semi == Find[p.rest, ";", IF slash = 0 THEN 1 ELSE slash]
  IN IF p.scheme \in uses_params /\ semi > 0
     THEN [p EXCEPT !.path = SubSeq(p.rest, 1, semi - 1),
                    !.params = SubSeq(p.rest, semi + 1, Len(p.rest)),
                    !.rest = ""]
     ELSE [p EXCEPT !.path = p.rest, !.rest = ""]

\* the 6-tuple urlparse returns and urlunparse takes
ParseResult ==
  [scheme : STRING, netloc : STRING, path : STRING, params : STRING,
   query : STRING, fragment : STRING]

SixTuple[p \in Parts] ==
  [scheme |-> p.scheme, netloc |-> p.netloc, path |-> p.path,
   params |-> p.params, query |-> p.query, fragment |-> p.fragment]

\* urllib.parse.urlparse(url, scheme=default)
urlparse[url \in STRING, default \in STRING] ==
  SixTuple[SplitParams[SplitQuery[SplitFragment[SplitNetloc[
    SplitScheme[url, default]]]]]]

\* urlunsplit: "//" netloc in front of the path, a "/" added when needed
WithNetloc[scheme \in STRING, netloc \in STRING, url \in STRING] ==
  IF netloc /= "" \/ (scheme /= "" /\ scheme \in uses_netloc /\ Prefix(url, 2) /= "//")
  THEN "//" \o netloc \o (IF url /= "" /\ Prefix(url, 1) /= "/" THEN "/" \o url ELSE url)
  ELSE url

\* urllib.parse.urlunparse((scheme, netloc, path, params, query, fragment))
urlunparse[p \in ParseResult] ==
  (IF p.scheme /= "" THEN p.scheme \o ":" ELSE "")
    \o WithNetloc[p.scheme, p.netloc,
                  IF p.params = "" THEN p.path ELSE p.path \o ";" \o p.params]
    \o (IF p.query /= "" THEN "?" \o p.query ELSE "")
    \o (IF p.fragment /= "" THEN "#" \o p.fragment ELSE "")

\* urljoin: the loop that resolves "." and ".." segments
ResolveDots[segments \in Seq(STRING), resolved \in Seq(STRING)] ==
  IF segments = <<>> THEN resolved
  ELSE IF Head(segments) = ".."
  THEN ResolveDots[Tail(segments),
                   IF resolved = <<>> THEN <<>>
                   ELSE SubSeq(resolved, 1, Len(resolved) - 1)]
  ELSE IF Head(segments) = "."
  THEN ResolveDots[Tail(segments), resolved]
  ELSE ResolveDots[Tail(segments), Append(resolved, Head(segments))]

\* urljoin: segments[1:-1] = filter(None, segments[1:-1])
DropInnerEmpty[segments \in Seq(STRING)] ==
  IF Len(segments) <= 2 THEN segments
  ELSE <<segments[1]>> \o NonEmpty[SubSeq(segments, 2, Len(segments) - 1)]
         \o <<segments[Len(segments)]>>

\* urljoin: base_parts, without the last segment of the base path unless empty
BaseParts[parts \in Seq(STRING)] ==
  IF parts[Len(parts)] /= "" THEN SubSeq(parts, 1, Len(parts) - 1) ELSE parts

\* urljoin: the segments of the joined path, before dot resolution
Segments[bpath \in STRING, path \in STRING] ==
  IF Prefix(path, 1) = "/" THEN Split[path]
  ELSE DropInnerEmpty[BaseParts[Split[bpath]] \o Split[path]]

\* urljoin: resolved_path, with the "" appended after a final "." or ".."
ResolvedPath[segments \in Seq(STRING)] ==
  IF segments[Len(segments)] \in {".", ".."}
  THEN Append(ResolveDots[segments, <<>>], "")
  ELSE ResolveDots[segments, <<>>]

\* "/".join(resolved_path) or "/"
OrSlash[path \in STRING] == IF path = "" THEN "/" ELSE path

\* urljoin, once base and url are parsed into b and r
JoinParsed[url \in STRING, b \in ParseResult, r \in ParseResult] ==
  IF r.scheme /= b.scheme \/ r.scheme \notin uses_relative THEN url
  ELSE IF r.scheme \in uses_netloc /\ r.netloc /= "" THEN urlunparse[r]
  ELSE IF r.path = "" /\ r.params = ""
  THEN urlunparse[[r EXCEPT !.netloc = b.netloc, !.path = b.path,
                            !.params = b.params,
                            !.query = IF r.query = "" THEN b.query ELSE r.query]]
  ELSE urlunparse[[r EXCEPT !.netloc = b.netloc,
                            !.path = OrSlash[Join[ResolvedPath[Segments[b.path, r.path]]]]]]

\* urllib.parse.urljoin(base, url) for non-empty base and url
urljoin[base \in STRING, url \in STRING] ==
  JoinParsed[url, urlparse[base, ""], urlparse[url, urlparse[base, ""].scheme]]

(***************************************************************************)
(* Bounds and the crawled sites                                            *)
(***************************************************************************)
\* largest max_workers a session is constructed with
MaxWorkers == 3

\* the sites a session is run against; each has a base URL and page bodies
Sites == {"overleaf", "docs", "root"}

\* base_url passed to SitemapGenerator (main uses the overleaf one)
BaseOf(s) ==
  IF s = "overleaf" THEN "https://www.overleaf.com/learn"
  ELSE IF s = "docs" THEN "https://example.com/docs"
  ELSE "https://example.com/?lang=en"

\* the URLs at which a site serves a page with links
PagesOf(s) ==
  IF s = "overleaf" THEN
    {"https://www.overleaf.com/learn",
     "https://www.overleaf.com/learn/latex/Articles",
     "https://www.overleaf.com/learn/how-to",
     "https://www.overleaf.com/blog",
     "http://www.overleaf.com/learn/latex/Tables"}
  ELSE IF s = "docs" THEN
    {"https://example.com/docs",
     "https://example.com/docs/a",
     "https://example.com/docs/a/b"}
  ELSE
    {"https://example.com/?lang=en",
     "https://example.com/",
     "https://example.com/faq",
     "https://example.com/learn/latex/a/b"}

\* the hrefs of the <a> tags of the page served at url, in document order
Body(s, url) ==
  IF s = "overleaf" THEN
    CASE url = "https://www.overleaf.com/learn" ->
           <<"/learn/latex/Articles", "/learn/how-to?from=nav",
             "/blog?next=/learn/latex/", "https://www.overleaf.com.evil.io/learn">>
      [] url = "https://www.overleaf.com/learn/latex/Articles" ->
           <<"/learn", "http://www.overleaf.com/learn/latex/Tables",
             "https://cdn.www.overleaf.com/learn/latex/x">>
      [] url = "https://www.overleaf.com/learn/how-to" ->
           <<"../learn", "http://www.overleaf.com/learn/latex/Tables#top",
             "https://www.overleaf.com:8080/learn/latex/x">>
      [] url = "https://www.overleaf.com/blog" ->
           <<"/learn/latex/Articles", "/pricing">>
      [] url = "http://www.overleaf.com/learn/latex/Tables" ->
           <<"figure.png", "/learn/how-to">>
      [] OTHER -> <<>>
  ELSE IF s = "docs" THEN
    CASE url = "https://example.com/docs" ->
           <<"https://example.com/docs/a", "https://other.com/x",
             "/docs/a#frag", "/docs/report.pdf", "", "#top",
             "mailto:team@example.com", "javascript:void(0)",
             "ftp://example.com/learn/latex/f", "http://[bad/docs">>
      [] url = "https://example.com/docs/a" ->
           <<"/docs", "http://[::1/docs/x", "b/../a?x=1", "/docs/a/b">>
      [] url = "https://example.com/docs/a/b" ->
           <<"..", "./c.jpeg", "//example.com/docs/a">>
      [] OTHER -> <<>>
  ELSE
    CASE url = "https://example.com/?lang=en" ->
           <<"/?lang=en", "/learn/latex/a/b", "?lang=en#x",
             "/faq?ref=/learn/latex/">>
      [] url = "https://example.com/" ->
           <<"/?lang=en&p=2", "/learn/latex/a/b#s">>
      [] url = "https://example.com/faq" ->
           <<"/faq/x?ref=/learn/latex/", "/faq/y">>
      [] url = "https://example.com/learn/latex/a/b" ->
           <<"/", "/docs">>
      [] OTHER -> <<>>

\* what a fetch can yield: a 200 HTML page, a non-200 status, a non-HTML
\* content type, a body the parser rejects, a timeout, a transport error
Outcomes ==
  {"ok", "status", "content_type", "parse_error", "timeout", "transport_error"}

\* the session mounts adapters for http:// and https:// only; any other
\* scheme makes session.get raise
FetchOutcomes(url) ==
  IF StartsWith(url, "http://") \/ StartsWith(url, "https://")
  THEN Outcomes ELSE {"transport_error"}

(***************************************************************************)
(* process_url: the per-link filter                                        *)
(***************************************************************************)
excluded_extensions ==
  {".pdf", ".doc", ".docx", ".xls", ".xlsx", ".jpg", ".jpeg", ".png", ".gif"}

\* not href, or a fragment / javascript: / mailto: link
SkipHref(href) ==
  \/ href = ""
  \/ StartsWith(href, "#")
  \/ StartsWith(href, "javascript:")
  \/ StartsWith(href, "mailto:")

\* relative hrefs are resolved against the page URL
Resolve(url, href) ==
  IF StartsWith(href, "http://") \/ StartsWith(href, "https://")
  THEN href ELSE urljoin[url, href]

\* urlsplit raises ValueError("Invalid IPv6 URL") on unbalanced brackets
ParseRaises(href) ==
  (Find[urlparse[href, ""].netloc, "[", 1] > 0)
    /= (Find[urlparse[href, ""].netloc, "]", 1] > 0)

\* (variant: the netloc comparison is dropped)
InScope_NoNetlocCheck(bu, bd, href) ==
  \/ StartsWith(href, bu)
  \/ Contains(href, "/learn/latex/")
  \/ Contains(href, "/learn/latex/Articles")

\* same netloc, and the href starts with base_url or is an article link
InScope(bu, bd, href) ==
  /\ urlparse[href, ""].netloc = bd
  /\ \/ StartsWith(href, bu)
     \/ Contains(href, "/learn/latex/")
     \/ Contains(href, "/learn/latex/Articles")

ExcludedExtension(href) ==
  \E ext \in excluded_extensions : EndsWith(urlparse[href, ""].path, ext)

\* scheme, netloc and path only
Normalize(href) ==
  urlunparse[[urlparse[href, ""] EXCEPT !.params = "", !.query = "", !.fragment = ""]]

\* the normalized URLs one link offers to the frontier: <<u>> or <<>>
LinkTarget(bu, bd, url, href) ==
  IF SkipHref(href) THEN <<>>
  ELSE LET r == Resolve(url, href)
       IN IF ParseRaises(r) THEN <<>>
          ELSE IF ~InScope(bu, bd, r) THEN <<>>
          ELSE IF ExcludedExtension(r) THEN <<>>
          ELSE <<Normalize(r)>>

\* LinkTarget tabulated over the links the sites contain (evaluated once)
LinkTable ==
  LET keys == UNION {UNION {{<<BaseOf(s), urlparse[BaseOf(s), ""].netloc, u,
                               Body(s, u)[j]>> : j \in 1..Len(Body(s, u))} :
                            u \in PagesOf(s)} : s \in Sites}
  IN [x \in keys |-> LinkTarget(x[1], x[2], x[3], x[4])]

\* the outcome of the link filter for href found on page url
Admit(bu, bd, url, href) == LinkTable[<<bu, bd, url, href>>]

\* the links whose handling raises, caught by "except Exception as
\* link_error" (evaluated once)
LinkErrorTable ==
  [x \in DOMAIN LinkTable |->
     ~SkipHref(x[4]) /\ ParseRaises(Resolve(x[3], x[4]))]

LinkError(bu, bd, url, href) == LinkErrorTable[<<bu, bd, url, href>>]

(***************************************************************************)
(* add_url_to_sitemap                                                      *)
(***************************************************************************)
Depth(url) ==
  IF urlparse[url, ""].path /= "/"
  THEN Len(NonEmpty[Split[urlparse[url, ""].path]]) ELSE 0

\* (variant: the third row of the table is missing)
get_frequency_priority_NoDepth2(url_depth) ==
  IF url_depth = 0 THEN <<"daily", "1.0">>
  ELSE IF url_depth = 1 THEN <<"weekly", "0.8">>
  ELSE <<"monthly", "0.4">>

get_frequency_priority(url_depth) ==
  IF url_depth = 0 THEN <<"daily", "1.0">>
  ELSE IF url_depth = 1 THEN <<"weekly", "0.8">>
  ELSE IF url_depth = 2 THEN <<"monthly", "0.6">>
  ELSE <<"monthly", "0.4">>

\* the <url> element appended for url (lastmod, the current date, left out)
Entry(url) ==
  LET fp == get_frequency_priority(Depth(url))
  IN [loc |-> url, changefreq |-> fp[1], priority |-> fp[2]]

\* every URL a session can hold: the base URLs and what the filter lets in
AllURLs ==
  {BaseOf(s) : s \in Sites}
    \cup {LinkTable[x][1] : x \in {y \in DOMAIN LinkTable : LinkTable[y] /= <<>>}}

\* Entry and urlparse tabulated over AllURLs (evaluated once)
EntryTable == [u \in AllURLs |-> Entry(u)]

ParseTable == [u \in AllURLs |-> urlparse[u, ""]]

\* urllib.parse.urlparse(url) of a URL of the session
Parsed(u) == ParseTable[u]

(***************************************************************************)
(* State                                                                   *)
(***************************************************************************)
VARIABLES
  site,             \* the site crawled (fixes base_url and the page bodies)
  base_url,         \* self.base_url
  base_domain,      \* self.base_domain
  max_workers,      \* self.max_workers
  to_visit,         \* self.to_visit, the FIFO queue, as a sequence
  visited,          \* self.visited
  url_frequencies,  \* the keys of self.url_frequencies
  entries,          \* the <url> children of self.xml_doc, in order
  pc,               \* where the main thread is in generate_sitemap
  batch_urls,       \* batch_urls of the current round
  submit_i,         \* index of the next element of batch_urls to submit
  futures,          \* the tasks submitted in this round
  sitemap_xml,      \* content of sitemap.xml: <<>> unwritten, else <<entries>>
  returned,         \* return value of generate_sitemap, <<>> until it returns
  resp,             \* what the server answered, per fetched URL
  puts,             \* bag of the URLs handed to self.to_visit.put
  submits,          \* bag of the URLs handed to executor.submit
  sig               \* <<>> or <<[entries, inflight]>> at the KeyboardInterrupt

vars == <<site, base_url, base_domain, max_workers, to_visit, visited,
          url_frequencies, entries, pc, batch_urls, submit_i, futures,
          sitemap_xml, returned, resp, puts, submits, sig>>

config == <<site, base_url, base_domain, max_workers>>

\* a submitted call of process_url(url): at its fetch, at add_url_to_sitemap,
\* at link number i of the page, or returned
Task(url) == [url |-> url, at |-> "fetch", i |-> 1]

AllDone == \A k \in 1..Len(futures) : futures[k].at = "done"

InFlight == {futures[k].url : k \in {j \in 1..Len(futures) : futures[j].at /= "done"}}

Locs(es) == {es[k].loc : k \in 1..Len(es)}

(***************************************************************************)
(* __init__                                                                *)
(***************************************************************************)
Init ==
  /\ site \in Sites
  /\ base_url = BaseOf(site)
  /\ base_domain = Parsed(base_url).netloc
  /\ max_workers \in 0..MaxWorkers
  /\ to_visit = <<base_url>>
  /\ visited = {}
  /\ url_frequencies = {}
  /\ entries = <<>>
  /\ pc = "pool"
  /\ batch_urls = <<>>
  /\ submit_i = 1
  /\ futures = <<>>
  /\ sitemap_xml = <<>>
  /\ returned = <<>>
  /\ resp = <<>>
  /\ puts = SetToBag({base_url})
  /\ submits = EmptyBag
  /\ sig = <<>>

(***************************************************************************)
(* process_url, run by the pool threads                                    *)
(***************************************************************************)
\* (variant: the content-type check is dropped)
AfterFetch_AnyContentType(o) == IF o \in {"ok", "content_type"} THEN "add" ELSE "done"

\* (variant: a timed-out page is still scanned for links)
AfterFetch_LinksOnTimeout(o) ==
  IF o = "ok" THEN "add" ELSE IF o = "timeout" THEN "links" ELSE "done"

\* where process_url goes after the fetch: on to add_url_to_sitemap for a
\* parsed 200 HTML page, out ("return" / "return False") for anything else
AfterFetch(o) == IF o = "ok" THEN "add" ELSE "done"

\* session.get and the status / content-type / parse checks
Fetch(k) ==
  /\ k \in 1..Len(futures)
  /\ futures[k].at = "fetch"
  /\ \E o \in FetchOutcomes(futures[k].url) :
       /\ resp' = (futures[k].url :> o) @@ resp
       /\ futures' = [futures EXCEPT ![k].at = AfterFetch(o), ![k].i = 1]
  /\ UNCHANGED <<config, to_visit, visited, url_frequencies, entries, pc,
                 batch_urls, submit_i, sitemap_xml, returned, puts, submits, sig>>

\* self.add_url_to_sitemap(url)
AddUrl(k) ==
  /\ k \in 1..Len(futures)
  /\ futures[k].at = "add"
  /\ entries' = Append(entries, EntryTable[futures[k].url])
  /\ futures' = [futures EXCEPT ![k].at = "links"]
  /\ UNCHANGED <<config, to_visit, visited, url_frequencies, pc, batch_urls,
                 submit_i, sitemap_xml, returned, resp, puts, submits, sig>>

\* (variant: the check consults visited only, not the queued marks)
Fresh_VisitedOnly(u) == u \notin visited

\* the locked check before to_visit.put
Fresh(u) == u \notin visited /\ u \notin url_frequencies

\* (variant: a queued URL is not marked in url_frequencies)
Link_NoQueuedMark(k) ==
  /\ k \in 1..Len(futures)
  /\ futures[k].at = "links"
  /\ futures[k].i <= Len(Body(site, futures[k].url))
  /\ LET t == Admit(base_url, base_domain, futures[k].url,
                   Body(site, futures[k].url)[futures[k].i])
     IN IF t /= <<>> /\ Fresh(t[1])
        THEN /\ to_visit' = Append(to_visit, t[1])
             /\ puts' = puts (+) SetToBag({t[1]})
        ELSE UNCHANGED <<to_visit, puts>>
  /\ futures' = [futures EXCEPT ![k].i = @ + 1]
  /\ UNCHANGED <<config, visited, url_frequencies, entries, pc, batch_urls,
                 submit_i, sitemap_xml, returned, resp, submits, sig>>

\* (variant: an exception of one link leaves the loop and ends the task)
Link_AbortOnLinkError(k) ==
  /\ k \in 1..Len(futures)
  /\ futures[k].at = "links"
  /\ futures[k].i <= Len(Body(site, futures[k].url))
  /\ LET t == Admit(base_url, base_domain, futures[k].url,
                   Body(site, futures[k].url)[futures[k].i])
     IN IF t /= <<>> /\ Fresh(t[1])
        THEN /\ to_visit' = Append(to_visit, t[1])
             /\ url_frequencies' = url_frequencies \cup {t[1]}
             /\ puts' = puts (+) SetToBag({t[1]})
        ELSE UNCHANGED <<to_visit, url_frequencies, puts>>
  /\ futures' = IF LinkError(base_url, base_domain, futures[k].url,
                             Body(site, futures[k].url)[futures[k].i])
                THEN [futures EXCEPT ![k].at = "done"]
                ELSE [futures EXCEPT ![k].i = @ + 1]
  /\ UNCHANGED <<config, visited, entries, pc, batch_urls, submit_i,
                 sitemap_xml, returned, resp, submits, sig>>

\* one iteration of the loop over soup.find_all("a")
Link(k) ==
  /\ k \in 1..Len(futures)
  /\ futures[k].at = "links"
  /\ futures[k].i <= Len(Body(site, futures[k].url))
  /\ LET t == Admit(base_url, base_domain, futures[k].url,
                   Body(site, futures[k].url)[futures[k].i])
     IN IF t /= <<>> /\ Fresh(t[1])
        THEN /\ to_visit' = Append(to_visit, t[1])
             /\ url_frequencies' = url_frequencies \cup {t[1]}
             /\ puts' = puts (+) SetToBag({t[1]})
        ELSE UNCHANGED <<to_visit, url_frequencies, puts>>
  /\ futures' = [futures EXCEPT ![k].i = @ + 1]
  /\ UNCHANGED <<config, visited, entries, pc, batch_urls, submit_i,
                 sitemap_xml, returned, resp, submits, sig>>

\* return True after the last link
Return(k) ==
  /\ k \in 1..Len(futures)
  /\ futures[k].at = "links"
  /\ futures[k].i > Len(Body(site, futures[k].url))
  /\ futures' = [futures EXCEPT ![k].at = "done"]
  /\ UNCHANGED <<config, to_visit, visited, url_frequencies, entries, pc,
                 batch_urls, submit_i, sitemap_xml, returned, resp, puts,
                 submits, sig>>

(***************************************************************************)
(* generate_sitemap, the main thread                                       *)
(***************************************************************************)
\* ThreadPoolExecutor(max_workers=...) accepts a positive worker count
StartPool ==
  /\ pc = "pool"
  /\ max_workers > 0
  /\ pc' = "batch"
  /\ UNCHANGED <<config, to_visit, visited, url_frequencies, entries,
                 batch_urls, submit_i, futures, sitemap_xml, returned, resp,
                 puts, submits, sig>>

\* ... and raises ValueError otherwise, caught by "except Exception"
PoolError ==
  /\ pc = "pool"
  /\ max_workers <= 0
  /\ pc' = "err_join"
  /\ UNCHANGED <<config, to_visit, visited, url_frequencies, entries,
                 batch_urls, submit_i, futures, sitemap_xml, returned, resp,
                 puts, submits, sig>>

\* (variant: the head is read but left in the queue)
QueueGet_Peek(q) == q

\* to_visit.get(): the queue without its head
QueueGet(q) == Tail(q)

\* one to_visit.get that returns a URL
BatchGet ==
  /\ pc = "batch"
  /\ Len(batch_urls) < max_workers
  /\ to_visit /= <<>>
  /\ to_visit' = QueueGet(to_visit)
  /\ batch_urls' = IF Head(to_visit) \notin visited
                   THEN Append(batch_urls, Head(to_visit)) ELSE batch_urls
  /\ UNCHANGED <<config, visited, url_frequencies, entries, pc, submit_i,
                 futures, sitemap_xml, returned, resp, puts, submits, sig>>

\* the batch is full, or to_visit.get timed out with queue.Empty
BatchEnd ==
  /\ pc = "batch"
  /\ Len(batch_urls) >= max_workers \/ to_visit = <<>>
  /\ pc' = "submit"
  /\ submit_i' = 1
  /\ UNCHANGED <<config, to_visit, visited, url_frequencies, entries,
                 batch_urls, futures, sitemap_xml, returned, resp, puts,
                 submits, sig>>

\* (variant: the URL is submitted without being added to visited)
Submit_NoVisitedMark ==
  /\ pc = "submit"
  /\ submit_i <= Len(batch_urls)
  /\ futures' = Append(futures, Task(batch_urls[submit_i]))
  /\ submits' = submits (+) SetToBag({batch_urls[submit_i]})
  /\ submit_i' = submit_i + 1
  /\ UNCHANGED <<config, to_visit, visited, url_frequencies, entries, pc,
                 batch_urls, sitemap_xml, returned, resp, puts, sig>>

\* visited.add(url); futures.append(executor.submit(self.process_url, url))
Submit ==
  /\ pc = "submit"
  /\ submit_i <= Len(batch_urls)
  /\ visited' = visited \cup {batch_urls[submit_i]}
  /\ futures' = Append(futures, Task(batch_urls[submit_i]))
  /\ submits' = submits (+) SetToBag({batch_urls[submit_i]})
  /\ submit_i' = submit_i + 1
  /\ UNCHANGED <<config, to_visit, url_frequencies, entries, pc, batch_urls,
                 sitemap_xml, returned, resp, puts, sig>>

\* executor.submit cannot start a thread (RuntimeError), after visited.add
SubmitError ==
  /\ pc = "submit"
  /\ submit_i <= Len(batch_urls)
  /\ visited' = visited \cup {batch_urls[submit_i]}
  /\ pc' = "err_join"
  /\ UNCHANGED <<config, to_visit, url_frequencies, entries, batch_urls,
                 submit_i, futures, sitemap_xml, returned, resp, puts,
                 submits, sig>>

\* (variant: the round ends without waiting for its tasks)
WaitAll_NoWait ==
  /\ pc = "submit"
  /\ submit_i > Len(batch_urls)
  /\ pc' = "check"
  /\ UNCHANGED <<config, to_visit, visited, url_frequencies, entries,
                 batch_urls, submit_i, futures, sitemap_xml, returned, resp,
                 puts, submits, sig>>

\* for future in futures: future.result(); futures = []
WaitAll ==
  /\ pc = "submit"
  /\ submit_i > Len(batch_urls)
  /\ AllDone
  /\ futures' = <<>>
  /\ pc' = "check"
  /\ UNCHANGED <<config, to_visit, visited, url_frequencies, entries,
                 batch_urls, submit_i, sitemap_xml, returned, resp, puts,
                 submits, sig>>

\* (variant: the loop is left while one URL is still queued)
LoopExit_OffByOne == Len(to_visit) <= 1

\* if self.to_visit.empty(): break
LoopExit == to_visit = <<>>

\* leave the loop and the "with" block, or sleep and start the next round
Check ==
  /\ pc = "check"
  /\ IF LoopExit
     THEN pc' = "render" /\ UNCHANGED batch_urls
     ELSE pc' = "batch" /\ batch_urls' = <<>>
  /\ UNCHANGED <<config, to_visit, visited, url_frequencies, entries,
                 submit_i, futures, sitemap_xml, returned, resp, puts,
                 submits, sig>>

\* toprettyxml, write sitemap.xml, return len(self.visited)
Render ==
  /\ pc = "render"
  /\ sitemap_xml' = <<entries>>
  /\ returned' = <<Cardinality(visited)>>
  /\ pc' = "finished"
  /\ UNCHANGED <<config, to_visit, visited, url_frequencies, entries,
                 batch_urls, submit_i, futures, resp, puts, submits, sig>>

\* KeyboardInterrupt raised in the main thread; leaving the "with" block
\* joins the pool threads (shutdown(wait=True))
Interrupt ==
  /\ pc \in {"pool", "batch", "submit", "check", "render"}
  /\ pc' = "int_join"
  /\ sig' = <<[entries |-> entries, inflight |-> InFlight]>>
  /\ UNCHANGED <<config, to_visit, visited, url_frequencies, entries,
                 batch_urls, submit_i, futures, sitemap_xml, returned, resp,
                 puts, submits>>

\* (variant: the handler does not wait for the pool threads)
InterruptHandler_NoJoin ==
  /\ pc = "int_join"
  /\ sitemap_xml' = <<entries>>
  /\ returned' = <<Cardinality(visited)>>
  /\ pc' = "interrupted"
  /\ UNCHANGED <<config, to_visit, visited, url_frequencies, entries,
                 batch_urls, submit_i, futures, resp, puts, submits, sig>>

\* except KeyboardInterrupt: write sitemap.xml, return len(self.visited)
InterruptHandler ==
  /\ pc = "int_join"
  /\ AllDone
  /\ sitemap_xml' = <<entries>>
  /\ returned' = <<Cardinality(visited)>>
  /\ pc' = "interrupted"
  /\ UNCHANGED <<config, to_visit, visited, url_frequencies, entries,
                 batch_urls, submit_i, futures, resp, puts, submits, sig>>

\* except Exception: report on stderr, return 0
ErrorHandler ==
  /\ pc = "err_join"
  /\ AllDone
  /\ returned' = <<0>>
  /\ pc' = "failed"
  /\ UNCHANGED <<config, to_visit, visited, url_frequencies, entries,
                 batch_urls, submit_i, futures, sitemap_xml, resp, puts,
                 submits, sig>>

Worker == \E k \in DOMAIN futures : Fetch(k) \/ AddUrl(k) \/ Link(k) \/ Return(k)

Main ==
  \/ StartPool
  \/ PoolError
  \/ BatchGet
  \/ BatchEnd
  \/ Submit
  \/ WaitAll
  \/ Check
  \/ Render
  \/ InterruptHandler
  \/ ErrorHandler

Next ==
  \/ \E k \in DOMAIN futures : Fetch(k)
  \/ \E k \in DOMAIN futures : AddUrl(k)
  \/ \E k \in DOMAIN futures : Link(k)
  \/ \E k \in DOMAIN futures : Return(k)
  \/ StartPool
  \/ PoolError
  \/ BatchGet
  \/ BatchEnd
  \/ Submit
  \/ SubmitError
  \/ WaitAll
  \/ Check
  \/ Render
  \/ Interrupt
  \/ InterruptHandler
  \/ ErrorHandler

Spec == Init /\ [][Next]_vars

\* the threads keep running: the main thread and the pool threads each take
\* their next step when they have one; the stop signal and the thread-start
\* failure are the environment's and need not happen
FairSpec == Spec /\ WF_vars(Main) /\ WF_vars(Worker)

(***************************************************************************)
(* What the crawl should produce, from the site and the recorded answers   *)
(***************************************************************************)
Failures == Outcomes \ {"ok"}

OkPages == {u \in DOMAIN resp : resp[u] = "ok"}

FailedPages == {u \in DOMAIN resp : resp[u] \in Failures}

\* the URLs the links of page url offer to the frontier
LinkedFrom(url) ==
  {t[1] : t \in {Admit(base_url, base_domain, url, Body(site, url)[j]) :
                   j \in 1..Len(Body(site, url))} \ {<<>>}}

\* closure of S under the links of the pages that answered 200 HTML
RECURSIVE Reach(_)
Reach(S) ==
  LET N == S \cup UNION {LinkedFrom(u) : u \in S \cap OkPages}
  IN IF N = S THEN S ELSE Reach(N)

\* the targets of the links task k has already gone through
Passed(k) ==
  {t[1] : t \in {Admit(base_url, base_domain, futures[k].url,
                       Body(site, futures[k].url)[j]) :
                   j \in 1..(futures[k].i - 1)} \ {<<>>}}

IsPrefixOf(a, b) == Len(a) <= Len(b) /\ SubSeq(b, 1, Len(a)) = a

(***************************************************************************)
(* C1: every URL is handed to to_visit.put at most once in a session,      *)
(* the seeded base URL included, whichever task meets a link to it and     *)
(* whether it is pending, in flight or finished at that moment.            *)
(***************************************************************************)
C1_EnqueuedAtMostOnce == \A u \in BagToSet(puts) : CopiesIn(u, puts) = 1

\* two tasks of one round have both gone through a link to the same URL,
\* and one of them through a link back to the base URL
C1_Witness ==
  \E k1, k2 \in DOMAIN futures :
    /\ k1 /= k2
    /\ Passed(k1) \cap Passed(k2) /= {}
    /\ base_url \in Passed(k1)

(***************************************************************************)
(* C2: no URL is submitted to the pool more than once, whatever its first  *)
(* processing yielded (entry, skip, timeout or transport error).           *)
(***************************************************************************)
C2_DispatchedAtMostOnce == \A u \in BagToSet(submits) : CopiesIn(u, submits) = 1

\* the crawl finished; a page whose fetch failed is also linked from a page
\* other than the base page that was fetched and scanned
C2_Witness ==
  /\ pc = "finished"
  /\ \E u \in FailedPages : \E p \in OkPages \ {base_url} : u \in LinkedFrom(p)

(***************************************************************************)
(* C3: with the threads running and no stop signal or start-up failure,    *)
(* the crawl reaches the drained state (queue empty, nothing in flight)    *)
(* and has then rendered and written the document.                         *)
(***************************************************************************)
Disturbed == pc \in {"int_join", "interrupted", "err_join", "failed"}

C3_Terminates ==
  <>(\/ Disturbed
     \/ /\ pc = "finished"
        /\ to_visit = <<>>
        /\ InFlight = {}
        /\ sitemap_xml = <<entries>>)

\* a crawl of several rounds ran to its normal end
C3_Witness == pc = "finished" /\ Cardinality(visited) >= 4 /\ Len(entries) >= 3

(***************************************************************************)
(* C4: at a normal finish the <loc> values are exactly the URLs reachable  *)
(* from the base URL over links of 200-HTML pages that themselves answered *)
(* 200 HTML, each once; this depends on the site and the answers only, not *)
(* on max_workers or the interleaving.                                     *)
(***************************************************************************)
C4_SitemapIsReachableOk ==
  pc = "finished" =>
    /\ Reach({base_url}) \subseteq DOMAIN resp
    /\ Locs(entries) = Reach({base_url}) \cap OkPages
    /\ Len(entries) = Cardinality(Locs(entries))

\* finished with two workers, some pages in the sitemap and some skipped
C4_Witness ==
  /\ pc = "finished"
  /\ max_workers >= 2
  /\ Len(entries) >= 2
  /\ FailedPages /= {}

(***************************************************************************)
(* C5: the entry list never holds two entries for one URL, every entry's   *)
(* URL was submitted to the pool and answered 200 HTML, and entries are    *)
(* only ever appended: an entry in the list stays as it is.                *)
(***************************************************************************)
C5_EntriesSound ==
  /\ Len(entries) = Cardinality(Locs(entries))
  /\ Locs(entries) \subseteq OkPages \cap BagToSet(submits)

C5_EntriesImmutable ==
  /\ [](C5_EntriesSound)
  /\ [][IsPrefixOf(entries, entries')]_vars

\* several entries exist while another page of the crawl was skipped
C5_Witness == Len(entries) >= 3 /\ FailedPages /= {}

(***************************************************************************)
(* C6: a fetch that yields a non-200 status, a non-HTML content type, a    *)
(* timeout or a transport error ends the task at once: no entry for the    *)
(* URL, no link of that page offered to the frontier, and the URL is in    *)
(* visited all the same.                                                   *)
(***************************************************************************)
FetchFailures == {"status", "content_type", "timeout", "transport_error"}

C6_FailedTaskState ==
  /\ \A k \in DOMAIN futures :
       (futures[k].url \in DOMAIN resp /\ resp[futures[k].url] \in FetchFailures)
         => futures[k].at = "done" /\ Passed(k) = {}
  /\ \A u \in DOMAIN resp :
       resp[u] \in FetchFailures => u \notin Locs(entries) /\ u \in visited
  /\ \A u \in BagToSet(puts) \ {base_url} : \E p \in OkPages : u \in LinkedFrom(p)

C6_FailedFetchStep ==
  \A k \in DOMAIN futures :
    (/\ futures[k].at = "fetch"
     /\ k \in DOMAIN futures'
     /\ futures'[k].at /= "fetch"
     /\ resp'[futures[k].url] \in FetchFailures)
      => /\ futures'[k].at = "done"
         /\ entries' = entries
         /\ to_visit' = to_visit
         /\ url_frequencies' = url_frequencies
         /\ futures[k].url \in visited'

C6_FailureSkipsPage == [](C6_FailedTaskState) /\ [][C6_FailedFetchStep]_vars

\* the crawl ran to its end; one page timed out or hit a transport error,
\* another was skipped for its status or content type, and a failed page
\* carries links the filter would let in
C6_Witness ==
  /\ pc = "finished"
  /\ \E u \in DOMAIN resp : resp[u] \in {"timeout", "transport_error"}
  /\ \E u \in DOMAIN resp : resp[u] \in {"status", "content_type"}
  /\ \E u \in DOMAIN resp : resp[u] \in FetchFailures /\ LinkedFrom(u) /= {}

(***************************************************************************)
(* C7: whenever generate_sitemap has returned (normal end, interruption,   *)
(* or an error caught inside it), sitemap.xml holds the entries built.     *)
(***************************************************************************)
C7_AlwaysWritten ==
  pc \in {"finished", "interrupted", "failed"} => sitemap_xml = <<entries>>

(***************************************************************************)
(* C8 as stated: the document written after a stop signal holds exactly    *)
(* the entries that existed when the signal arrived.                       *)
(***************************************************************************)
C8_ExactlyEntriesAtSignal ==
  pc = "interrupted" => sitemap_xml = <<sig[1].entries>>

(***************************************************************************)
(* C8 amended: the document written after a stop signal holds every entry  *)
(* that existed when the signal arrived, in the same order, followed only  *)
(* by entries of URLs that were in flight at the signal; it is the entry   *)
(* list as it stands once those tasks have returned.                       *)
(***************************************************************************)
C8_EntriesAtSignalPlusInFlight ==
  pc = "interrupted" =>
    /\ sitemap_xml = <<entries>>
    /\ IsPrefixOf(sig[1].entries, sitemap_xml[1])
    /\ Locs(sitemap_xml[1]) \ Locs(sig[1].entries) \subseteq sig[1].inflight

\* the signal arrived with entries built and a task in flight that added
\* its entry afterwards
C8_Witness ==
  /\ pc = "interrupted"
  /\ Len(sig[1].entries) >= 1
  /\ Len(sitemap_xml[1]) > Len(sig[1].entries)

(***************************************************************************)
(* C9: every URL put on the queue, submitted, fetched or written to the    *)
(* sitemap has a netloc equal to base_domain; links to a sub-domain, to    *)
(* another port or to another host never get in.                           *)
(***************************************************************************)
C9_SameHostOnly ==
  \A u \in BagToSet(puts) \cup BagToSet(submits) \cup DOMAIN resp \cup Locs(entries) :
    Parsed(u).netloc = base_domain

\* the crawl finished after scanning pages with a link to a sub-domain of
\* the base domain and a link to the base host on another port
C9_Witness ==
  /\ pc = "finished"
  /\ \E p \in OkPages : \E j \in 1..Len(Body(site, p)) :
       EndsWith(urlparse[Resolve(p, Body(site, p)[j]), ""].netloc,
                "." \o base_domain)
  /\ \E p \in OkPages : \E j \in 1..Len(Body(site, p)) :
       StartsWith(urlparse[Resolve(p, Body(site, p)[j]), ""].netloc,
                  base_domain \o ":")

(***************************************************************************)
(* C10: every URL admitted through a link starts with base_url or has a    *)
(* path under /learn/latex/; the query string and the fragment of the link *)
(* play no part in the decision.                                           *)
(***************************************************************************)
C10_ScopeByPrefixOrPath ==
  \A u \in BagToSet(puts) \ {base_url} :
    \/ StartsWith(u, base_url)
    \/ StartsWith(Parsed(u).path, "/learn/latex/")

(***************************************************************************)
(* C11: every URL admitted through a link has scheme http or https and a   *)
(* path that ends with none of the excluded extensions; a link that is     *)
(* empty or starts with '#', 'javascript:' or 'mailto:' admits nothing.    *)
(***************************************************************************)
C11_HttpAndNoExcludedExtension ==
  /\ \A u \in url_frequencies :
       /\ Parsed(u).scheme \in {"http", "https"}
       /\ \A ext \in excluded_extensions : ~EndsWith(Parsed(u).path, ext)
  /\ \A k \in DOMAIN futures : \A j \in 1..(futures[k].i - 1) :
       SkipHref(Body(site, futures[k].url)[j])
         => Admit(base_url, base_domain, futures[k].url,
                  Body(site, futures[k].url)[j]) = <<>>

(***************************************************************************)
(* C12: every URL of the frontier (queued, in flight or completed) and     *)
(* every <loc> of the sitemap has an empty query string and an empty       *)
(* fragment, and a key that several links normalize to is queued once.     *)
(***************************************************************************)
C12_FrontierIsCanonical ==
  /\ \A u \in BagToSet(puts) \cup visited \cup Locs(entries) :
       Parsed(u).query = "" /\ Parsed(u).fragment = ""
  /\ \A u \in url_frequencies : CopiesIn(u, puts) = 1

(***************************************************************************)
(* C13: the value generate_sitemap returns is the number of sitemap        *)
(* entries produced; skipped, failed and timed-out URLs are not counted.   *)
(***************************************************************************)
C13_CountIsEntries == returned /= <<>> => returned[1] = Len(entries)

(***************************************************************************)
(* C14: the depth of an entry is the number of non-empty '/'-separated     *)
(* segments of its URL's path (0 for the path '/'), and its changefreq and *)
(* priority are daily 1.0, weekly 0.8, monthly 0.6 for depths 0, 1, 2 and  *)
(* monthly 0.4 for every depth from 3 on.                                  *)
(***************************************************************************)
\* the non-empty segments of a path, counted by where they start
SegmentCount(path) ==
  Cardinality({i \in 1..Len(path) :
                 /\ CharAt(path, i) /= "/"
                 /\ (i = 1 \/ CharAt(path, i - 1) = "/")})

C14_DepthTable ==
  \A k \in 1..Len(entries) :
    LET d == SegmentCount(Parsed(entries[k].loc).path)
    IN <<entries[k].changefreq, entries[k].priority>> =
         CASE d = 0 -> <<"daily", "1.0">>
           [] d = 1 -> <<"weekly", "0.8">>
           [] d = 2 -> <<"monthly", "0.6">>
           [] OTHER -> <<"monthly", "0.4">>

\* the sitemap written has entries of depth 0 (path '/'), 1, 2 and 4
C14_Witness ==
  /\ pc = "finished"
  /\ \E k \in 1..Len(entries) : Parsed(entries[k].loc).path = "/"
  /\ \A d \in {0, 1, 2, 4} : \E k \in 1..Len(entries) :
       SegmentCount(Parsed(entries[k].loc).path) = d

(***************************************************************************)
(* C15: on the normal path the main thread leaves the crawl loop for the   *)
(* rendering only with the queue empty and no task in flight; with a task  *)
(* still running it stays in the loop even if the queue is empty, and no   *)
(* entry is appended once rendering has started.                           *)
(***************************************************************************)
C15_Drained ==
  pc \in {"render", "finished"} => to_visit = <<>> /\ InFlight = {}

C15_RenderOnlyWhenDrained ==
  /\ [](C15_Drained)
  /\ [][(pc \in {"render", "finished"}) => (entries' = entries)]_vars
  /\ [][(pc \notin {"render", "finished"} /\ pc' = "render")
          => (to_visit = <<>> /\ InFlight = {} /\ pc = "check")]_vars

\* the crawl finished after more than one round: in the first round the
\* queue was empty while the task of the base URL was still to add links
C15_Witness ==
  /\ pc = "finished"
  /\ Cardinality(url_frequencies) >= 2
  /\ Len(entries) >= 2

(***************************************************************************)
(* C16: after the stop signal no further URL is dispatched, every task in  *)
(* flight runs to its end, and the document is rendered and written only   *)
(* after the last of them has ended, never while an entry can still be     *)
(* appended.                                                               *)
(***************************************************************************)
C16_WrittenAfterJoin ==
  pc = "interrupted" => AllDone /\ sitemap_xml = <<entries>>

C16_StopJoinsThenWrites ==
  /\ [][(pc \in {"int_join", "interrupted"})
          => (submits' = submits /\ visited' = visited)]_vars
  /\ [][(pc = "int_join" /\ sitemap_xml' /= sitemap_xml) => AllDone]_vars
  /\ [](C16_WrittenAfterJoin)
  /\ (pc = "int_join" ~> pc = "interrupted")

\* the signal came with a task in flight and URLs still pending; the
\* document was written with the pending URLs left in the queue
C16_Witness ==
  /\ pc = "interrupted"
  /\ sig[1].inflight /= {}
  /\ to_visit /= <<>>
  /\ sitemap_xml /= <<>>

(***************************************************************************)
(* C17: in every reachable state the set consulted to refuse a second      *)
(* admission, the queued marks url_frequencies, contains every visited     *)
(* URL, the seeded base URL included.                                      *)
(***************************************************************************)
C17_QueuedMarksCoverVisited == visited \subseteq url_frequencies

(***************************************************************************)
(* C17 (amended): every visited URL was handed to the queue before, the    *)
(* seed included; every visited URL other than the base URL carries a      *)
(* queued mark; the base URL never does.                                   *)
(***************************************************************************)
C17_VisitedWereQueued ==
  /\ visited \subseteq BagToSet(puts)
  /\ visited \ {base_url} \subseteq url_frequencies
  /\ base_url \notin url_frequencies

\* the base URL and two discovered URLs are visited, after a task went
\* through a link back to the base URL
C17_Witness ==
  /\ base_url \in visited
  /\ Cardinality(visited) >= 3
  /\ \E k \in DOMAIN futures : base_url \in Passed(k)

(***************************************************************************)
(* C18: a URL is in visited only once the task processing it has ended;    *)
(* visited, and so the count shown as progress, never holds a URL whose    *)
(* fetch is still running.                                                 *)
(***************************************************************************)
C18_VisitedOnlyWhenFinished == visited \cap InFlight = {}

(***************************************************************************)
(* C19: an exception raised while handling one link skips that link only:  *)
(* the links after it on the page are still examined and admitted.  A      *)
(* failure while processing one URL ends that URL's task only.  Neither    *)
(* stops the crawl: every queued URL is still dispatched and the crawl     *)
(* runs on to the drained state.                                           *)
(***************************************************************************)
\* some task has gone through a link whose handling raised
LinkErrorPassed ==
  \E k \in DOMAIN futures : \E j \in 1..(futures[k].i - 1) :
    LinkError(base_url, base_domain, futures[k].url, Body(site, futures[k].url)[j])

C19_AllLinksFollowed ==
  pc = "finished" =>
    /\ \A p \in OkPages : LinkedFrom(p) \subseteq DOMAIN resp
    /\ BagToSet(puts) \subseteq DOMAIN resp

C19_ErrorsContained ==
  /\ [](C19_AllLinksFollowed)
  /\ [][\A k \in DOMAIN futures :
          (futures[k].at = "links" /\ futures'[k].at = "done")
            => (futures[k].i > Len(Body(site, futures[k].url)))]_vars
  /\ ((FailedPages /= {} \/ LinkErrorPassed) ~> (Disturbed \/ pc = "finished"))

\* the crawl finished although a fetch failed; a page had a link that raised
\* followed by a link to a URL no other page links to, which got its entry
C19_Witness ==
  /\ pc = "finished"
  /\ FailedPages /= {}
  /\ \E p \in OkPages : \E j1, j2 \in 1..Len(Body(site, p)) :
       /\ j1 < j2
       /\ LinkError(base_url, base_domain, p, Body(site, p)[j1])
       /\ \E u \in Locs(entries) :
            /\ Admit(base_url, base_domain, p, Body(site, p)[j2]) = <<u>>
            /\ \A q \in OkPages \ {p} : u \notin LinkedFrom(q)

(***************************************************************************)
(* C20: whenever the queue is not empty and fewer than max_workers URLs    *)
(* are in flight, dispatching does not have to wait for a task in flight   *)
(* to end: the main thread is never held at the wait for the round's       *)
(* tasks in such a state.                                                  *)
(***************************************************************************)
C20_DispatchNeverWaits ==
  ~(/\ pc = "submit"
    /\ submit_i > Len(batch_urls)
    /\ ~AllDone
    /\ to_visit /= <<>>
    /\ Cardinality(InFlight) < max_workers)

====
